---- MODULE Spec2Model ----
(***************************************************************************)
(* pybiomart Database (src/pybiomart/database.py): a mart on a BioMart     *)
(* server that fetches its datasets lazily with one GET, reads the         *)
(* tab-separated answer with pandas.read_csv, builds one Dataset per row   *)
(* and keeps the resulting dict in the slot self._datasets.                *)
(*                                                                         *)
(* Python values are tagged records.  A response body is the sequence of   *)
(* its lines, each line the sequence of its tab-separated fields (so the   *)
(* empty line is <<"">>).  Field texts are plain and unquoted.  read_csv   *)
(* reads the texts of its na_values as missing and infers each column's    *)
(* type; the numeric texts it knows are here the decimal naturals up to    *)
(* MaxNumber and the texts of FloatTexts.                                  *)
(***************************************************************************)
EXTENDS Naturals, Sequences, FiniteSets, TLC

\* Bounds of the model.
MaxCalls == 3
MaxRows == 2
MaxNumber == 9

Threads == {"t1", "t2"}

VARIABLES
    db,          \* the Database object's fields set by __init__ (immutable)
    _datasets,   \* the cache slot self._datasets
    pc,          \* per thread: where it is inside the datasets property
    op,          \* per thread: the operation in progress or last run
    resp,        \* per thread: the response body its GET returned
    local,       \* per thread: the value _fetch_datasets returned to it
    ret,         \* per thread: what its last operation returned or raised
    active,      \* the threads that use the Database
    getLog,      \* the GETs issued so far, by their parameters
    nextId,      \* identity of the next dict object built
    hist         \* counters of what has happened

vars == <<db, _datasets, pc, op, resp, local, ret, active, getLog, nextId, hist>>

(***************************************************************************)
(* Python values                                                           *)
(***************************************************************************)
PyNone == [tag |-> "None"]
PyStr(s) == [tag |-> "str", val |-> s]
PyDict(id, items) == [tag |-> "dict", id |-> id, items |-> items]
PyDataset(d) == [tag |-> "Dataset", val |-> d]
PyRaise(e) == [tag |-> "raise", exc |-> e]

\* A float nan object.  Two nan objects are never equal (nan != nan); a dict
\* takes two nan keys for one key only when they are the same object, so the
\* object's identity is part of the value.
PyNaN(id) == [tag |-> "float", nan |-> TRUE, id |-> id]
IsNaN(v) == v.tag = "float" /\ v.nan
\* numpy's np.nan, one object.
NpNan == PyNaN(<<0, 0>>)
EMPTY == ""

\* An int, a bool, and a float that is no nan: the float's value is the
\* fraction <<numerator, denominator>> in lowest terms.
PyInt(n) == [tag |-> "int", val |-> n]
PyBool(b) == [tag |-> "bool", val |-> b]
PyFloat(q) == [tag |-> "float", nan |-> FALSE, val |-> q]

\* What a dict compares of a key: numbers of equal value are one key
\* (1 == 1.0 == True, with equal hashes), whatever their types; a text is
\* itself; a nan is the object it is.
Key(v) ==
    CASE v.tag = "int" -> [tag |-> "number", val |-> <<v.val, 1>>]
      [] v.tag = "bool" -> [tag |-> "number", val |-> <<IF v.val THEN 1 ELSE 0, 1>>]
      [] v.tag = "float" /\ ~v.nan -> [tag |-> "number", val |-> v.val]
      [] OTHER -> v

(***************************************************************************)
(* The transport collaborator (ServerBase) and the Dataset class           *)
(***************************************************************************)
DEFAULT_SCHEMA == "default"
DEFAULT_HOST == "default_host"
DEFAULT_PATH == "default_path"
DEFAULT_PORT == "default_port"
NOT_GIVEN == "<not given>"

\* ServerBase.__init__: keeps host, path, port, use_cache, each defaulted
\* when omitted.
ServerBaseInit(host, path, port, use_cache) ==
    [host |-> IF host = NOT_GIVEN THEN DEFAULT_HOST ELSE host,
     path |-> IF path = NOT_GIVEN THEN DEFAULT_PATH ELSE path,
     port |-> IF port = NOT_GIVEN THEN DEFAULT_PORT ELSE port,
     use_cache |-> use_cache]

\* Dataset(...): the object holds what it was constructed with.
Dataset(name, display_name, host, path, port, use_cache, virtual_schema) ==
    [name |-> name, display_name |-> display_name, host |-> host,
     path |-> path, port |-> port, use_cache |-> use_cache,
     virtual_schema |-> virtual_schema]

(***************************************************************************)
(* Database.__init__                                                       *)
(***************************************************************************)
RESULT_COLNAMES ==
    <<"type", "name", "display_name", "unknown", "unknown2",
      "unknown3", "unknown4", "virtual_schema", "unknown5">>

DatabaseInit(name, database_name, display_name, host, path, port, use_cache, virtual_schema, extra_params) ==
    [base |-> ServerBaseInit(host, path, port, use_cache),
     _name |-> name,
     _database_name |-> database_name,
     _display_name |-> display_name,
     _virtual_schema |-> virtual_schema,
     _extra_params |-> extra_params]

(***************************************************************************)
(* pandas.read_csv(StringIO(text), sep='\t', header=None, names=...)       *)
(***************************************************************************)
\* Texts read_csv reads as a missing value (keep_default_na): pandas' default
\* na_values, "None" among them since pandas 2.0.
NaTexts ==
    {"", "#N/A", "#N/A N/A", "#NA", "-1.#IND", "-1.#QNAN", "-NaN", "-nan",
     "1.#IND", "1.#QNAN", "<NA>", "N/A", "NA", "NULL", "NaN", "None",
     "n/a", "nan", "null"}

\* Texts read_csv parses as an integer, and the integer.
IntTexts == {ToString(n) : n \in 0..MaxNumber}
IntOf(field) == CHOOSE n \in 0..MaxNumber : ToString(n) = field

\* Texts read_csv parses as a float but not as an integer, and the float of
\* a numeric text.
FloatTexts == {"0.5", "1.5", "2.0"}
FloatOf(field) ==
    CASE field = "0.5" -> <<1, 2>>
      [] field = "1.5" -> <<3, 2>>
      [] field = "2.0" -> <<2, 1>>
      [] OTHER -> <<IntOf(field), 1>>

\* Texts read_csv parses as a boolean (its default true_values and
\* false_values).
TrueTexts == {"True", "TRUE", "true"}
FalseTexts == {"False", "FALSE", "false"}

\* The type read_csv infers for a column from its fields: integers when
\* every field is an integer text; floats when every present field is a
\* numeric text (a missing value in a column of integers makes it a column
\* of floats), and when no field is present; booleans when every field is a
\* boolean text, kept in an object column when some field is missing; else
\* an object column of texts.
ColumnDtype(fields) ==
    LET present == {fields[i] : i \in {j \in 1..Len(fields) : fields[j] \notin NaTexts}}
        hasNa == \E i \in 1..Len(fields) : fields[i] \in NaTexts
    IN  IF present = {} THEN "float64"
        ELSE IF present \subseteq IntTexts
             THEN (IF hasNa THEN "float64" ELSE "int64")
        ELSE IF present \subseteq (IntTexts \cup FloatTexts) THEN "float64"
        ELSE IF present \subseteq (TrueTexts \cup FalseTexts)
             THEN (IF hasNa THEN "object(bool)" ELSE "bool")
        ELSE "object"

\* A cell of the frame: missing, or a value of its column's type read from
\* the field's text.
Cell(field, dtype) == [na |-> field \in NaTexts, text |-> field, dtype |-> dtype]

\* The sequence a function on 1..n is, value by value.
Tuple(f) == SubSeq(f, 1, Len(f))

Max(a, b) == IF a >= b THEN a ELSE b

\* skip_blank_lines: an empty line is no row.
IsBlank(line) == line = <<EMPTY>>
NonBlank(text) == SelectSeq(text, LAMBDA line : ~IsBlank(line))

\* A line shorter than the table is filled with missing values.
FieldAt(line, j) == IF j <= Len(line) THEN line[j] ELSE EMPTY

\* The first row fixes the table's width, at least one column per name; a
\* later row with more fields than that is a ParserError.  When the first row
\* has more fields than there are names, the leading surplus columns become
\* the index and the names label the columns after them.  With no row at all
\* the frame is empty (names are given, so this is no EmptyDataError).
ReadCsv(text, names) ==
    LET lines == NonBlank(text)
        n == Len(names)
    IN  IF lines = <<>>
        THEN [ok |-> TRUE, rows |-> <<>>]
        ELSE LET width == Max(Len(lines[1]), n)
                 lead == width - n
             IN  IF \E i \in 2..Len(lines) : Len(lines[i]) > width
                 THEN [ok |-> FALSE, exc |-> "ParserError"]
                 ELSE LET dtype == Tuple([k \in 1..n |->
                                       ColumnDtype([i \in 1..Len(lines) |->
                                                      FieldAt(lines[i], lead + k)])])
                      IN  [ok |-> TRUE,
                           rows |-> Tuple([i \in 1..Len(lines) |->
                                       Tuple([k \in 1..n |->
                                           Cell(FieldAt(lines[i], lead + k), dtype[k])])])]

\* The Python object a cell comes out as in row i, column k.  The missing
\* cells of an object column are all np.nan; a cell of a float column comes
\* out as a float object of its own, a nan one when missing.  When the
\* frame's columns are all integers or floats and some are floats, the rows
\* are float arrays and an integer comes out as a float.
Box(cell, i, k, upcast) ==
    CASE cell.dtype = "object" ->
            IF cell.na THEN NpNan ELSE PyStr(cell.text)
      [] cell.dtype = "object(bool)" ->
            IF cell.na THEN NpNan ELSE PyBool(cell.text \in TrueTexts)
      [] cell.dtype = "bool" -> PyBool(cell.text \in TrueTexts)
      [] cell.dtype = "int64" ->
            IF upcast THEN PyFloat(FloatOf(cell.text)) ELSE PyInt(IntOf(cell.text))
      [] cell.dtype = "float64" ->
            IF cell.na THEN PyNaN(<<i, k>>) ELSE PyFloat(FloatOf(cell.text))

\* result.iterrows(): each row as a Series of Python objects.
IterRows(rows) ==
    LET dtypes == IF rows = <<>> THEN {}
                  ELSE {rows[1][k].dtype : k \in 1..Len(rows[1])}
        upcast == dtypes = {"int64", "float64"}
    IN  Tuple([i \in 1..Len(rows) |->
            Tuple([k \in 1..Len(rows[i]) |-> Box(rows[i][k], i, k, upcast)])])

\* row[col] of a frame row whose columns are labelled by names.
RowGet(row, names, col) ==
    row[CHOOSE k \in 1..Len(names) : names[k] = col]

(***************************************************************************)
(* Database._dataset_from_row, Database._fetch_datasets                    *)
(***************************************************************************)
\* Variant: the Dataset gets the Database's own virtual schema.
DatasetFromRowOwnSchema(d, row) ==
    Dataset(RowGet(row, RESULT_COLNAMES, "name"),
            RowGet(row, RESULT_COLNAMES, "display_name"),
            d.base.host, d.base.path, d.base.port, d.base.use_cache,
            PyStr(d._virtual_schema))

DatasetFromRow(d, row) ==
    Dataset(RowGet(row, RESULT_COLNAMES, "name"),
            RowGet(row, RESULT_COLNAMES, "display_name"),
            d.base.host, d.base.path, d.base.port, d.base.use_cache,
            RowGet(row, RESULT_COLNAMES, "virtual_schema"))

\* d[k] = v on a dict, whose entries are kept by what it compares of their
\* keys.
DictSet(items, k, v) ==
    [x \in (DOMAIN items) \cup {Key(k)} |-> IF x = Key(k) THEN v ELSE items[x]]

EmptyItems == [x \in {} |-> x]

\* {d.name: d for d in datasets}: inserted in order.
RECURSIVE DictOf(_)
DictOf(datasets) ==
    IF datasets = <<>>
    THEN EmptyItems
    ELSE LET n == Len(datasets)
             last == datasets[n]
         IN  DictSet(DictOf(SubSeq(datasets, 1, n - 1)), last.name, last)

\* Variant: the mart is named by the host-side ID.
GetParamsByDatabaseName(d) == [type |-> "datasets", mart |-> d._database_name]

\* The parameters of the GET.
GetParams(d) == [type |-> "datasets", mart |-> d._name]

\* What _fetch_datasets does with the response text: the items of the dict
\* it returns, or the exception it raises.
FetchDatasets(d, text) ==
    LET result == ReadCsv(text, RESULT_COLNAMES)
    IN  IF ~result.ok
        THEN [ok |-> FALSE, exc |-> result.exc]
        ELSE LET rows == IterRows(result.rows)
             IN  [ok |-> TRUE,
                  items |-> DictOf([i \in 1..Len(rows) |-> DatasetFromRow(d, rows[i])])]

(***************************************************************************)
(* Database.__getitem__, the plain properties, Database.__repr__           *)
(***************************************************************************)
\* Variant: dict.get, None for a missing name.
GetItemOrNone(dict, name) ==
    IF Key(name) \in DOMAIN dict.items
    THEN [tag |-> "Dataset", val |-> dict.items[Key(name)]]
    ELSE [tag |-> "None"]

\* self.datasets[name] on the dict, name a Python object.
GetItem(dict, name) ==
    IF Key(name) \in DOMAIN dict.items
    THEN PyDataset(dict.items[Key(name)])
    ELSE PyRaise("KeyError")

Name(d) == d._name
DisplayName(d) == d._display_name
DatabaseName(d) == d._database_name

\* {!r} of a text without quotes in it.
PyRepr(s) == "'" \o s \o "'"

\* format() fills the three fields from its first three arguments; host and
\* path, the fourth and fifth, are not used.
Repr(d) ==
    LET args == <<d._name, d._display_name, d._database_name,
                  d.base.host, d.base.path>>
    IN  "<biomart.Mart name=" \o PyRepr(args[1])
        \o ", database_name=" \o PyRepr(args[2])
        \o ", display_name=" \o PyRepr(args[3]) \o ">"

(***************************************************************************)
(* The inputs: constructor arguments and response bodies                   *)
(***************************************************************************)
\* Constructor arguments: all connection arguments left out, or all given.
CtorArgs ==
    {[name |-> "mart1", database_name |-> "ens_mart", display_name |-> "Ensembl Genes",
      host |-> NOT_GIVEN, path |-> NOT_GIVEN, port |-> NOT_GIVEN, use_cache |-> TRUE],
     [name |-> "mart1", database_name |-> "Ensembl Genes", display_name |-> "ens_mart",
      host |-> "http://h", path |-> "/p", port |-> "8080", use_cache |-> FALSE]}

\* Display names read_csv reads as missing: the empty text, and the text NA.
NoDisplay == [display |-> EMPTY, schema |-> "schema_x"]
NaDisplay == [display |-> "NA", schema |-> "schema_y"]

\* A line with all nine fields; one cut to its first len fields; one with a
\* tenth field.
Line9(n, v) ==
    <<"TableSet", n, v.display, "u4", "u5", "u6", "u7", v.schema, "u9">>
ShortLine(n, v, len) == SubSeq(Line9(n, v), 1, len)
LongLine(n, v) == Line9(n, v) \o <<"u10">>
One == [display |-> "Display One", schema |-> "schema_x"]
Two == [display |-> "Display Two", schema |-> "schema_y"]
\* Nine-field lines, their names texts read_csv keeps, an integer text and
\* the empty text; a line of seven fields; a line of ten fields.
Lines ==
    {Line9("ds1", One), Line9("ds1", Two), Line9("ds2", NoDisplay),
     Line9("1", NaDisplay), Line9(EMPTY, One),
     ShortLine("ds1", One, 7),
     LongLine("ds2", Two)}
Bodies == UNION {[1..k -> Lines] : k \in 0..MaxRows}

\* Names looked up: one the responses may hold, one they never hold.
Keys == {"ds1", "ds3"}
Ops == {[kind |-> "datasets", key |-> EMPTY]}
         \cup {[kind |-> "getitem", key |-> k] : k \in Keys}
NoOp == [kind |-> "none", key |-> EMPTY]
NoBody == <<<<"<no response>">>>>

(***************************************************************************)
(* Construction                                                            *)
(***************************************************************************)
Hist0 == [calls |-> 0, accesses |-> 0, misses |-> 0, writes |-> 0,
          tfails |-> 0, pfails |-> 0]

InitWith(act) ==
    /\ \E a \in CtorArgs :
          db = DatabaseInit(a.name, a.database_name, a.display_name, a.host, a.path,
                            a.port, a.use_cache, DEFAULT_SCHEMA, PyNone)
    /\ _datasets = PyNone
    /\ active = act
    /\ pc = [t \in Threads |-> "idle"]
    /\ op = [t \in Threads |-> NoOp]
    /\ resp = [t \in Threads |-> NoBody]
    /\ local = [t \in Threads |-> PyNone]
    /\ ret = [t \in Threads |-> PyNone]
    /\ getLog = <<>>
    /\ nextId = 1
    /\ hist = Hist0

Init == InitWith({"t1"})
InitMT == InitWith(Threads)

CanCall(t) == t \in active /\ pc[t] = "idle" /\ hist.calls < MaxCalls

(***************************************************************************)
(* Reads of name, display_name, database_name and repr                     *)
(***************************************************************************)
ReadAttr(t, kind, value) ==
    /\ CanCall(t)
    /\ op' = [op EXCEPT ![t] = [kind |-> kind, key |-> EMPTY]]
    /\ ret' = [ret EXCEPT ![t] = PyStr(value)]
    /\ resp' = [resp EXCEPT ![t] = NoBody]
    /\ local' = [local EXCEPT ![t] = PyNone]
    /\ hist' = [hist EXCEPT !.calls = @ + 1]
    /\ UNCHANGED <<db, _datasets, pc, active, getLog, nextId>>

ReadName(t) == ReadAttr(t, "name", Name(db))
ReadDisplayName(t) == ReadAttr(t, "display_name", DisplayName(db))
ReadDatabaseName(t) == ReadAttr(t, "database_name", DatabaseName(db))
ReadRepr(t) == ReadAttr(t, "repr", Repr(db))

(***************************************************************************)
(* The datasets property (o.kind = "datasets") and db[key] ("getitem")     *)
(***************************************************************************)
\* Variant: if not self._datasets, which an empty dict satisfies too.
IsFalsy(slot) ==
    \/ slot = PyNone
    \/ (slot.tag = "dict" /\ DOMAIN slot.items = {})

\* Line 91: if self._datasets is None.
IsUnfetched(slot) == slot = PyNone

\* The access starts and finds the slot filled: on to the return.
AccessHit(t, o) ==
    /\ CanCall(t)
    /\ ~IsUnfetched(_datasets)
    /\ op' = [op EXCEPT ![t] = o]
    /\ pc' = [pc EXCEPT ![t] = "return"]
    /\ ret' = [ret EXCEPT ![t] = PyNone]
    /\ resp' = [resp EXCEPT ![t] = NoBody]
    /\ local' = [local EXCEPT ![t] = PyNone]
    /\ hist' = [hist EXCEPT !.calls = @ + 1, !.accesses = @ + 1]
    /\ UNCHANGED <<db, _datasets, active, getLog, nextId>>

\* Variant: the fetch runs under a lock, one thread at a time.
AccessMissLocked(t, o) ==
    /\ CanCall(t)
    /\ _datasets = PyNone
    /\ \A u \in active : pc[u] \notin {"get", "store"}
    /\ op' = [op EXCEPT ![t] = o]
    /\ pc' = [pc EXCEPT ![t] = "get"]
    /\ getLog' = Append(getLog, GetParams(db))
    /\ ret' = [ret EXCEPT ![t] = PyNone]
    /\ resp' = [resp EXCEPT ![t] = NoBody]
    /\ local' = [local EXCEPT ![t] = PyNone]
    /\ hist' = [hist EXCEPT !.calls = @ + 1, !.accesses = @ + 1, !.misses = @ + 1]
    /\ UNCHANGED <<db, _datasets, active, nextId>>

\* The access starts and finds the slot None: _fetch_datasets issues the GET.
AccessMiss(t, o) ==
    /\ CanCall(t)
    /\ IsUnfetched(_datasets)
    /\ op' = [op EXCEPT ![t] = o]
    /\ pc' = [pc EXCEPT ![t] = "get"]
    /\ getLog' = Append(getLog, GetParams(db))
    /\ ret' = [ret EXCEPT ![t] = PyNone]
    /\ resp' = [resp EXCEPT ![t] = NoBody]
    /\ local' = [local EXCEPT ![t] = PyNone]
    /\ hist' = [hist EXCEPT !.calls = @ + 1, !.accesses = @ + 1, !.misses = @ + 1]
    /\ UNCHANGED <<db, _datasets, active, nextId>>

\* Variant: the failure is swallowed and an empty dict cached.
GetRaisesCachesEmpty(t) ==
    /\ t \in active /\ pc[t] = "get"
    /\ pc' = [pc EXCEPT ![t] = "idle"]
    /\ _datasets' = PyDict(nextId, EmptyItems)
    /\ nextId' = nextId + 1
    /\ ret' = [ret EXCEPT ![t] = PyRaise("TransportError")]
    /\ hist' = [hist EXCEPT !.tfails = @ + 1]
    /\ UNCHANGED <<db, op, resp, local, active, getLog>>

\* self.get raises: the exception leaves the property, nothing is assigned.
GetRaises(t) ==
    /\ t \in active /\ pc[t] = "get"
    /\ pc' = [pc EXCEPT ![t] = "idle"]
    /\ ret' = [ret EXCEPT ![t] = PyRaise("TransportError")]
    /\ hist' = [hist EXCEPT !.tfails = @ + 1]
    /\ UNCHANGED <<db, _datasets, op, resp, local, active, getLog, nextId>>

\* self.get returns a response: read_csv, one Dataset per row, the dict.
GetReturns(t, body) ==
    /\ t \in active /\ pc[t] = "get"
    /\ resp' = [resp EXCEPT ![t] = body]
    /\ LET f == FetchDatasets(db, body)
       IN  IF f.ok
           THEN /\ local' = [local EXCEPT ![t] = PyDict(nextId, f.items)]
                /\ nextId' = nextId + 1
                /\ pc' = [pc EXCEPT ![t] = "store"]
                /\ UNCHANGED <<ret, hist>>
           ELSE /\ ret' = [ret EXCEPT ![t] = PyRaise(f.exc)]
                /\ pc' = [pc EXCEPT ![t] = "idle"]
                /\ hist' = [hist EXCEPT !.pfails = @ + 1]
                /\ UNCHANGED <<local, nextId>>
    /\ UNCHANGED <<db, _datasets, op, active, getLog>>

\* Line 92: self._datasets = <the dict>.
Store(t) ==
    /\ t \in active /\ pc[t] = "store"
    /\ _datasets' = local[t]
    /\ pc' = [pc EXCEPT ![t] = "return"]
    /\ hist' = [hist EXCEPT !.writes = @ + 1]
    /\ UNCHANGED <<db, op, resp, local, ret, active, getLog, nextId>>

\* Line 93: return self._datasets, which __getitem__ then indexes.
Return(t) ==
    /\ t \in active /\ pc[t] = "return"
    /\ ret' = [ret EXCEPT ![t] =
                 IF op[t].kind = "getitem"
                 THEN GetItem(_datasets, PyStr(op[t].key))
                 ELSE _datasets]
    /\ pc' = [pc EXCEPT ![t] = "idle"]
    /\ UNCHANGED <<db, _datasets, op, resp, local, active, getLog, nextId, hist>>

Next ==
    \E t \in Threads :
        \/ ReadName(t)
        \/ ReadDisplayName(t)
        \/ ReadDatabaseName(t)
        \/ ReadRepr(t)
        \/ \E o \in Ops : AccessHit(t, o)
        \/ \E o \in Ops : AccessMiss(t, o)
        \/ GetRaises(t)
        \/ \E body \in Bodies : GetReturns(t, body)
        \/ Store(t)
        \/ Return(t)

\* Several threads on one Database: the accesses alone, and responses of at
\* most one nine-field line.
BodiesMT == {b \in Bodies : Len(b) <= 1 /\ \A i \in 1..Len(b) : Len(b[i]) = 9}

NextMT ==
    \E t \in Threads :
        \/ \E o \in Ops : AccessHit(t, o)
        \/ \E o \in Ops : AccessMiss(t, o)
        \/ GetRaises(t)
        \/ \E body \in BodiesMT : GetReturns(t, body)
        \/ Store(t)
        \/ Return(t)

Spec == Init /\ [][Next]_vars
SpecMT == InitMT /\ [][NextMT]_vars

(***************************************************************************)
(* Vocabulary of the properties                                            *)
(***************************************************************************)
IsDict(v) == v.tag = "dict"
Idle(t) == t \in active /\ pc[t] = "idle"
NumGets == Len(getLog)
ExpectedParams == [type |-> "datasets", mart |-> db._name]

\* The response has at least one line and every line has nine fields.
NineColumns(body) == body # <<>> /\ \A i \in 1..Len(body) : Len(body[i]) = 9
\* Every line of the response has nine fields (no line at all included).
AllNine(body) == \A i \in 1..Len(body) : Len(body[i]) = 9

\* Thread t has fetched: the dict it built from the response it received.
Fetched(t) == t \in active /\ resp[t] # NoBody /\ IsDict(local[t])

(***************************************************************************)
(* C1                                                                      *)
(***************************************************************************)
\* C1 as stated: with a single thread and no GET failing, no GET is issued
\* before the first access to datasets (or db[name]), whatever reads of name,
\* display_name, database_name and repr there were; from the first access on
\* exactly one GET has been issued, with type='datasets' and mart=<name>; and
\* every datasets read returns the cached dict object.
C1_Original ==
    hist.tfails = 0 =>
        /\ NumGets = (IF hist.accesses = 0 THEN 0 ELSE 1)
        /\ \A i \in 1..NumGets : getLog[i] = ExpectedParams
        /\ \A t \in active :
              (Idle(t) /\ op[t].kind = "datasets" /\ IsDict(ret[t]))
                  => ret[t] = _datasets

\* C1 amended: the same, for a transport whose GET succeeds with a body that
\* read_csv accepts (a body it rejects raises, leaves the slot None, and the
\* next access issues another GET).
C1_LazyMemoized ==
    (hist.tfails = 0 /\ hist.pfails = 0) =>
        /\ NumGets = (IF hist.accesses = 0 THEN 0 ELSE 1)
        /\ \A i \in 1..NumGets : getLog[i] = ExpectedParams
        /\ \A t \in active :
              (Idle(t) /\ op[t].kind \in {"datasets", "getitem"})
                  => /\ _datasets # PyNone
                     /\ op[t].kind = "datasets" => ret[t] = _datasets

\* Three operations, an attribute read among them, two accesses, one GET,
\* and the last read returned the cached dict.
C1_Witness ==
    /\ hist.tfails = 0 /\ hist.pfails = 0
    /\ hist.calls = 3 /\ hist.accesses = 2 /\ NumGets = 1
    /\ Idle("t1") /\ op["t1"].kind = "datasets"
    /\ IsDict(ret["t1"]) /\ ret["t1"] = _datasets

(***************************************************************************)
(* C2                                                                      *)
(***************************************************************************)
C2_FailureLeavesUnfetched ==
    \A t \in active :
        (Idle(t) /\ ret[t] = PyRaise("TransportError")) => _datasets = PyNone

C2_FailureStep ==
    hist'.tfails # hist.tfails =>
        \E t \in active :
            /\ pc[t] = "get" /\ pc'[t] = "idle"
            /\ ret'[t] = PyRaise("TransportError")
            /\ _datasets' = PyNone
            /\ getLog' = getLog

C2_RetryStep ==
    \A t \in active :
        (Idle(t) /\ ret[t] = PyRaise("TransportError")
           /\ hist'.accesses # hist.accesses)
            => /\ getLog' = Append(getLog, ExpectedParams)
               /\ pc'[t] = "get"

\* C2: a failing GET reaches the caller as the transport's failure and leaves
\* the slot None (no empty or partial dict), and the access after a failure
\* issues a new GET; so after any failures in a row and a success there was
\* one GET per failure and one more.
C2_TransportFailure ==
    /\ [](C2_FailureLeavesUnfetched)
    /\ [](hist.tfails > 0 /\ hist.pfails = 0 /\ _datasets # PyNone
             => NumGets = hist.tfails + 1)
    /\ [][C2_FailureStep /\ C2_RetryStep]_vars

\* Two failures in a row, then a success.
C2_Witness ==
    /\ hist.tfails = 2 /\ hist.pfails = 0 /\ NumGets = 3
    /\ Idle("t1") /\ IsDict(ret["t1"]) /\ ret["t1"] = _datasets

(***************************************************************************)
(* C3                                                                      *)
(***************************************************************************)
\* C3: when the response does not tabulate into nine columns (a line with
\* fewer or more than nine fields, or no line), the access raises a
\* ParserError and stores nothing.
C3_ParseError ==
    \A t \in active :
        (Idle(t) /\ resp[t] # NoBody /\ ~NineColumns(resp[t]))
            => /\ ret[t] = PyRaise("ParserError")
               /\ _datasets = PyNone

(***************************************************************************)
(* C4                                                                      *)
(***************************************************************************)
C4_Lookup ==
    \A t \in active :
        (Idle(t) /\ op[t].kind = "getitem" /\ _datasets # PyNone)
            => IF PyStr(op[t].key) \in DOMAIN _datasets.items
               THEN ret[t] = PyDataset(_datasets.items[PyStr(op[t].key)])
               ELSE ret[t] = PyRaise("KeyError")

C4_KeyErrorStep ==
    \A t \in active :
        (ret'[t] = PyRaise("KeyError") /\ ret[t] # ret'[t])
            => _datasets' = _datasets /\ getLog' = getLog /\ hist'.writes = hist.writes

\* C4: db[name] for a name absent from the fetched mapping raises KeyError
\* (no None, no transport or parse failure), the failed lookup changes
\* neither the cached mapping nor the number of GETs, and db[name] for a
\* present name is the Dataset datasets[name].
C4_Indexing ==
    /\ [](C4_Lookup)
    /\ [][C4_KeyErrorStep]_vars

\* A lookup of an absent name on a non-empty mapping fetched by an earlier
\* access: KeyError, still one GET.
C4_Witness ==
    /\ Idle("t1") /\ op["t1"].kind = "getitem" /\ _datasets # PyNone
    /\ DOMAIN _datasets.items # {} /\ PyStr(op["t1"].key) \notin DOMAIN _datasets.items
    /\ ret["t1"] = PyRaise("KeyError")
    /\ hist.accesses = 2 /\ NumGets = 1

(***************************************************************************)
(* C5                                                                      *)
(***************************************************************************)
\* The rows of the frame read_csv makes of thread t's response.
FrameRows(t) == IterRows(ReadCsv(resp[t], RESULT_COLNAMES).rows)
RowName(row) == RowGet(row, RESULT_COLNAMES, "name")

\* The last of the rows whose name is the key k, names compared as a dict
\* compares its keys (a nan is only the same name as itself, the same
\* object).
LastRowNamed(rows, k) ==
    rows[CHOOSE i \in 1..Len(rows) :
            /\ Key(RowName(rows[i])) = k
            /\ \A j \in (i + 1)..Len(rows) : Key(RowName(rows[j])) # k]

\* The name fields of a response of nine-field lines, and the last line with
\* the name field n.
NameFields(body) == {body[i][2] : i \in 1..Len(body)}
LastLineNamed(body, n) ==
    CHOOSE i \in 1..Len(body) :
        /\ body[i][2] = n
        /\ \A j \in (i + 1)..Len(body) : body[j][2] # n

\* C5: when lines of the response have the same name field, the mapping
\* has exactly one entry for that name, the Dataset built from the last
\* such row: the mapping has as many entries as the lines have different
\* name fields, and for each name field the Dataset built from the last
\* row with it is an entry.
C5_LastWriteWins ==
    \A t \in active :
        (Fetched(t) /\ AllNine(resp[t])) =>
            LET body == resp[t]
                rows == FrameRows(t)
                items == local[t].items
            IN  /\ Cardinality(DOMAIN items) = Cardinality(NameFields(body))
                /\ \A n \in NameFields(body) :
                      \E k \in DOMAIN items :
                          items[k] = DatasetFromRow(db, rows[LastLineNamed(body, n)])

(***************************************************************************)
(* C6                                                                      *)
(***************************************************************************)
\* C6: for a response of nine-field lines, the keys of the mapping are
\* exactly the second fields of the lines, every entry is stored under its
\* Dataset's name, and each Dataset's display_name and virtual_schema are
\* the third and eighth field of a line with that name.
C6_Columns ==
    \A t \in active :
        (Fetched(t) /\ AllNine(resp[t])) =>
            LET body == resp[t]
                items == local[t].items
            IN  /\ DOMAIN items = {PyStr(body[i][2]) : i \in 1..Len(body)}
                /\ \A k \in DOMAIN items :
                      /\ Key(items[k].name) = k
                      /\ \E i \in 1..Len(body) :
                            /\ PyStr(body[i][2]) = k
                            /\ items[k].display_name = PyStr(body[i][3])
                            /\ items[k].virtual_schema = PyStr(body[i][8])

(***************************************************************************)
(* C7                                                                      *)
(***************************************************************************)
InheritsConnection(d) ==
    /\ d.host = db.base.host /\ d.path = db.base.path
    /\ d.port = db.base.port /\ d.use_cache = db.base.use_cache

\* C7: every Dataset of a fetched mapping, and of the cached one, has the
\* Database's host, path, port and use_cache, whatever the response holds;
\* its virtual_schema is the one of a row with its name, not the Database's
\* own.
C7_Propagation ==
    /\ \A t \in active :
          Fetched(t) =>
              LET rows == FrameRows(t)
              IN  \A k \in DOMAIN local[t].items :
                      /\ InheritsConnection(local[t].items[k])
                      /\ local[t].items[k].virtual_schema
                            = RowGet(LastRowNamed(rows, k),
                                     RESULT_COLNAMES, "virtual_schema")
                      /\ local[t].items[k].virtual_schema # PyStr(db._virtual_schema)
    /\ _datasets # PyNone =>
          \A k \in DOMAIN _datasets.items : InheritsConnection(_datasets.items[k])

\* A Database constructed with its own host, path, port and use_cache=False
\* whose cached Dataset has them, and the row's schema.
C7_Witness ==
    /\ db.base.host = "http://h" /\ db.base.use_cache = FALSE
    /\ _datasets # PyNone /\ PyStr("ds1") \in DOMAIN _datasets.items
    /\ _datasets.items[PyStr("ds1")].host = "http://h"
    /\ _datasets.items[PyStr("ds1")].port = "8080"
    /\ _datasets.items[PyStr("ds1")].use_cache = FALSE
    /\ _datasets.items[PyStr("ds1")].virtual_schema = PyStr("schema_y")
    /\ db._virtual_schema = DEFAULT_SCHEMA

(***************************************************************************)
(* C8                                                                      *)
(***************************************************************************)
\* C8: the representation shows name, database_name and display_name in
\* this order, the database_name given at construction under the label
\* database_name and the display_name given at construction under the label
\* display_name.
C8_ReprFields ==
    \A t \in active :
        (Idle(t) /\ op[t].kind = "repr") =>
            ret[t] = PyStr("<biomart.Mart name=" \o PyRepr(db._name)
                           \o ", database_name=" \o PyRepr(db._database_name)
                           \o ", display_name=" \o PyRepr(db._display_name) \o ">")

(***************************************************************************)
(* C9                                                                      *)
(***************************************************************************)
DatasetsOp == [kind |-> "datasets", key |-> EMPTY]

\* C9: nothing guards the check, the fetch and the store: a thread that
\* finds the slot None issues its own GET also while another thread's fetch
\* is under way, and a thread that has built its dict stores it also when
\* the slot is already filled.
C9_Unguarded ==
    \A t \in active :
        /\ (CanCall(t) /\ _datasets = PyNone) => ENABLED AccessMiss(t, DatasetsOp)
        /\ pc[t] = "store" => ENABLED Store(t)

\* Both threads read datasets, both saw None: two GETs, two writes of the
\* slot, and the two reads returned different dict objects.
C9_Witness ==
    /\ op["t1"] = DatasetsOp /\ op["t2"] = DatasetsOp
    /\ Idle("t1") /\ Idle("t2")
    /\ hist.misses = 2 /\ NumGets = 2 /\ hist.writes = 2
    /\ IsDict(ret["t1"]) /\ IsDict(ret["t2"])
    /\ ret["t1"].id # ret["t2"].id

(***************************************************************************)
(* C10                                                                     *)
(***************************************************************************)
\* C10: with a single thread, whatever GETs fail, the slot is written at
\* most once, it is filled exactly when it has been written, and once
\* filled it never changes again and no GET follows; a fetched mapping with
\* no dataset is filled like any other.
C10_WriteOnce ==
    /\ [](hist.writes <= 1 /\ (_datasets # PyNone <=> hist.writes = 1))
    /\ [][_datasets # PyNone => (_datasets' = _datasets /\ getLog' = getLog)]_vars

\* After a failed GET, a fetch of no dataset was cached, and a later read
\* returned it without a GET.
C10_Witness ==
    /\ hist.tfails = 1 /\ hist.writes = 1 /\ NumGets = 2
    /\ _datasets # PyNone /\ DOMAIN _datasets.items = {}
    /\ hist.accesses = 3 /\ Idle("t1") /\ ret["t1"] = _datasets

====
